---- MODULE Spec2Model ----
(***************************************************************************)
(* IKOMA MCP: the HTTP dispatcher (src/http/server.ts), the capability     *)
(* registry (src/core/capabilities.ts) and the four V1 pipeline stages     *)
(* (src/core/v1_tools.ts).                                                 *)
(*                                                                         *)
(* Strings are sequences of atoms.  The atom "/" is the path separator,    *)
(* ".." the parent-directory segment, "=" and "\n" the separators of the   *)
(* .env format; every other atom stands for a run of ordinary characters.  *)
(***************************************************************************)
EXTENDS Integers, Sequences, FiniteSets, TLC

\* ------------------------------------------------------------------------
\* Bounds
\* ------------------------------------------------------------------------

\* number of execute requests the dispatcher model accepts
MaxRequests == 2

\* number of stage invocations the pipeline model starts
MaxCalls == 2

\* ------------------------------------------------------------------------
\* String helpers (String.prototype.startsWith / includes, path.join)
\* ------------------------------------------------------------------------

StartsWith(s, p) ==
  /\ Len(p) <= Len(s)
  /\ SubSeq(s, 1, Len(p)) = p

Includes(s, sub) ==
  \E i \in 1..(Len(s) + 1) :
    /\ i + Len(sub) - 1 <= Len(s)
    /\ SubSeq(s, i, i + Len(sub) - 1) = sub

RECURSIVE JoinWith(_, _)
\* Array.prototype.join over strings: parts separated by sep
JoinWith(parts, sep) ==
  IF parts = << >> THEN << >>
  ELSE IF Len(parts) = 1 THEN parts[1]
  ELSE parts[1] \o sep \o JoinWith(Tail(parts), sep)

RECURSIVE SplitAcc(_, _, _)
SplitAcc(s, cur, acc) ==
  IF s = << >> THEN Append(acc, cur)
  ELSE IF Head(s) = "/" THEN SplitAcc(Tail(s), << >>, Append(acc, cur))
  ELSE SplitAcc(Tail(s), Append(cur, Head(s)), acc)

\* the segments of a path string, empty segments included
Split(s) == SplitAcc(s, << >>, << >>)

RECURSIVE ResolveSegs(_, _, _)
\* path.normalize on a segment list: drop empty and "." segments, let ".."
\* cancel the segment before it (and vanish at the root of an absolute path)
ResolveSegs(segs, stack, absolute) ==
  IF segs = << >> THEN stack
  ELSE LET g == Head(segs) IN
    IF g = << >> \/ g = <<".">> THEN ResolveSegs(Tail(segs), stack, absolute)
    ELSE IF g = <<"..">> THEN
      IF stack # << >> /\ stack[Len(stack)] # <<"..">>
        THEN ResolveSegs(Tail(segs), SubSeq(stack, 1, Len(stack) - 1), absolute)
      ELSE IF absolute THEN ResolveSegs(Tail(segs), stack, absolute)
      ELSE ResolveSegs(Tail(segs), Append(stack, g), absolute)
    ELSE ResolveSegs(Tail(segs), Append(stack, g), absolute)

\* the resolved segment list of a path string
Segments(s) == ResolveSegs(Split(s), << >>, s # << >> /\ s[1] = "/")

Normalize(s) ==
  LET absolute == s # << >> /\ s[1] = "/"
      segs     == Segments(s)
      body     == JoinWith(segs, <<"/">>)
      trail    == IF s # << >> /\ s[Len(s)] = "/" /\ segs # << >>
                    THEN <<"/">> ELSE << >>
  IN IF absolute THEN <<"/">> \o body \o trail
     ELSE IF body = << >> THEN <<".">>
     ELSE body \o trail

\* path.join(...parts)
Join(parts) == Normalize(JoinWith(SelectSeq(parts, LAMBDA p : p # << >>), <<"/">>))

\* path p lies strictly below directory d (both resolved)
IsDescendant(p, d) ==
  LET ps == Segments(p)
      ds == Segments(d)
  IN /\ Len(ps) > Len(ds)
     /\ SubSeq(ps, 1, Len(ds)) = ds

\* ------------------------------------------------------------------------
\* Roles and the capability registry
\* ------------------------------------------------------------------------

Roles == {"observer", "operator", "builder", "admin"}

\* roles.ts getRoleLevel: the level column of the role hierarchy
getRoleLevel(role) ==
  CASE role = "observer" -> 1
    [] role = "operator" -> 2
    [] role = "builder"  -> 3
    [] role = "admin"    -> 4

\* roles.ts hasPermission(userRole, requiredRole)
hasPermission(userRole, requiredRole) ==
  getRoleLevel(userRole) >= getRoleLevel(requiredRole)

\* the registry: name, required role and handler of every entry, in order
CAPABILITIES ==
  <<
     [name |-> "platform.info", requiredRole |-> "observer", handler |-> "platformInfo"],
     [name |-> "platform.check", requiredRole |-> "observer", handler |-> "platformCheck"],
     [name |-> "apps.list", requiredRole |-> "observer", handler |-> "appsList"],
     [name |-> "apps.status", requiredRole |-> "observer", handler |-> "appsStatus"],
     [name |-> "apps.health", requiredRole |-> "observer", handler |-> "appsHealth"],
     [name |-> "apps.init", requiredRole |-> "builder", handler |-> "appsInit"],
     [name |-> "apps.remove", requiredRole |-> "admin", handler |-> "appsRemove"],
     [name |-> "apps.env.example", requiredRole |-> "observer", handler |-> "appsEnvExample"],
     [name |-> "apps.validate", requiredRole |-> "observer", handler |-> "appsValidate"],
     [name |-> "deploy.up", requiredRole |-> "operator", handler |-> "deployUp"],
     [name |-> "deploy.down", requiredRole |-> "operator", handler |-> "deployDown"],
     [name |-> "deploy.restart", requiredRole |-> "operator", handler |-> "deployRestart"],
     [name |-> "db.create", requiredRole |-> "builder", handler |-> "dbCreate"],
     [name |-> "db.migrate", requiredRole |-> "builder", handler |-> "dbMigrate"],
     [name |-> "db.seed", requiredRole |-> "builder", handler |-> "dbSeed"],
     [name |-> "db.backup", requiredRole |-> "operator", handler |-> "dbBackup"],
     [name |-> "db.status", requiredRole |-> "observer", handler |-> "dbStatus"],
     [name |-> "artifact.generate_runbook", requiredRole |-> "observer", handler |-> "artifactGenerateRunbook"],
     [name |-> "artifact.verify_release", requiredRole |-> "observer", handler |-> "artifactVerifyRelease"],
     [name |-> "repo.clone", requiredRole |-> "builder", handler |-> "repoClone"],
     [name |-> "supabase.ensure", requiredRole |-> "builder", handler |-> "supabaseEnsure"],
     [name |-> "supabase.apply", requiredRole |-> "builder", handler |-> "supabaseApply"],
     [name |-> "release.deploy", requiredRole |-> "builder", handler |-> "releaseDeploy"]
  >>

CapIndices == 1..Len(CAPABILITIES)

getAllCapabilityNames == [i \in CapIndices |-> CAPABILITIES[i].name]

\* the value of an absent lookup (undefined)
NoCapability == [name |-> "undefined", requiredRole |-> "undefined", handler |-> "undefined"]

\* index of the first entry called name, 0 when there is none (Array.find)
FindIndex(name) ==
  IF \E i \in CapIndices : CAPABILITIES[i].name = name
    THEN CHOOSE i \in CapIndices :
           /\ CAPABILITIES[i].name = name
           /\ \A j \in 1..(i - 1) : CAPABILITIES[j].name # name
    ELSE 0

getCapability(name) ==
  IF FindIndex(name) = 0 THEN NoCapability ELSE CAPABILITIES[FindIndex(name)]

\* the filter with a strict comparison of the levels
getCapabilitiesForRoleStrict(role) ==
  LET userLevel == getRoleLevel(role)
      Keep(c)   == userLevel > getRoleLevel(c.requiredRole)
  IN SelectSeq(CAPABILITIES, Keep)

getCapabilitiesForRole(role) ==
  LET userLevel == getRoleLevel(role)
      Keep(c)   == userLevel >= getRoleLevel(c.requiredRole)
  IN SelectSeq(CAPABILITIES, Keep)

\* ------------------------------------------------------------------------
\* State
\* ------------------------------------------------------------------------

VARIABLES
  requests,     \* the execute requests received, by request id: inputs, position, response
  auditLog,     \* the audit trail: one record per entry written
  handlerLog,   \* the handler invocations made by the dispatcher, in order
  listing,      \* the answers of the getCapabilitiesForRole calls made, in order
  platform,     \* what exists of the application the requests name: tree, database
  calls,        \* the pipeline stage invocations in flight or returned, by slot
  started,      \* number of stage invocations started so far
  fs,           \* the filesystem and container state the stages act on
  outcomes      \* the results release.deploy has returned, by release directory

dvars == <<requests, auditLog, handlerLog, listing, platform>>
pvars == <<calls, started, fs, outcomes>>
vars  == <<requests, auditLog, handlerLog, listing, platform, calls, started, fs, outcomes>>

\* ------------------------------------------------------------------------
\* Dispatcher: POST /execute/:capability
\* ------------------------------------------------------------------------

\* the capability names requests are made with: one entry of every required
\* role, a V1 tool, and a name the registry does not hold
RequestNames == {"platform.info", "deploy.up", "release.deploy", "apps.remove", "no.such"}

NoBody == [success |-> "unset", code |-> "unset", error |-> "unset", required |-> "unset",
           current |-> "unset", result |-> "unset"]

\* the request bodies: one that fits the schema of the capability, and bodies
\* that leave out a required field or hold a value of another type
WellFormed == "well_formed"

ArgShapes == {WellFormed, "no_appName", "port_as_string"}

\* security.ts verifyApiKey
verifyApiKey(apiKey) == apiKey = "valid"

\* roles.ts validateRole
validateRole(role) == role \in Roles

\* a middleware that looks at the role before the key
authenticateRoleFirst(apiKey, role) ==
  IF role = "missing" \/ ~validateRole(role) THEN "role_required"
  ELSE IF apiKey = "missing" THEN "api_key_required"
  ELSE IF ~verifyApiKey(apiKey) THEN "invalid_api_key"
  ELSE "next"

\* the authentication middleware: the x-api-key header, then the x-role header
authenticate(apiKey, role) ==
  IF apiKey = "missing" THEN "api_key_required"
  ELSE IF ~verifyApiKey(apiKey) THEN "invalid_api_key"
  ELSE IF role = "missing" \/ ~validateRole(role) THEN "role_required"
  ELSE "next"

\* the route without its role check
GateNoRoleCheck(capabilityName, role) ==
  IF getCapability(capabilityName) = NoCapability THEN "not_found" ELSE "invoke"

\* the decision of the route before anything is invoked
Gate(capabilityName, role) ==
  LET capability == getCapability(capabilityName) IN
    IF capability = NoCapability THEN "not_found"
    ELSE IF ~hasPermission(role, capability.requiredRole) THEN "forbidden"
    ELSE "invoke"

\* a request as the server holds it: what it carried, where it is, its answer
NewRequest(apiKey, role, capabilityName, args) ==
  [apiKey |-> apiKey, capability |-> capabilityName, role |-> role, args |-> args,
   pc |-> "done", outcome |-> "none", result |-> "none", audit |-> "none",
   wrapper |-> "none", responses |-> 1, status |-> 0, body |-> NoBody]

\* the synchronous part of the route: lookup, role check, then the handler is
\* called with the body as it came, inside the audit wrapper, with a fresh
\* request id
Route(apiKey, role, capabilityName, args) ==
  LET requestId  == Len(requests) + 1
      capability == getCapability(capabilityName)
      base       == NewRequest(apiKey, role, capabilityName, args)
  IN CASE Gate(capabilityName, role) = "not_found" ->
            /\ requests' = Append(requests,
                  [base EXCEPT !.status = 404,
                               !.body = [NoBody EXCEPT !.error = "Capability not found"]])
            /\ UNCHANGED handlerLog
       [] Gate(capabilityName, role) = "forbidden" ->
            /\ requests' = Append(requests,
                  [base EXCEPT !.status = 403,
                               !.body = [NoBody EXCEPT !.error = "Insufficient permissions",
                                                       !.required = capability.requiredRole,
                                                       !.current = role]])
            /\ UNCHANGED handlerLog
       [] Gate(capabilityName, role) = "invoke" ->
            /\ requests' = Append(requests, [base EXCEPT !.pc = "handler", !.responses = 0])
            /\ handlerLog' = Append(handlerLog,
                  [requestId |-> requestId, handler |-> capability.handler,
                   role |-> role])

\* an authenticated request with a body that fits the schema reaches the route
Execute(capabilityName, role) ==
  /\ Len(requests) < MaxRequests
  /\ Route("valid", role, capabilityName, WellFormed)
  /\ UNCHANGED <<auditLog, listing, platform, pvars>>

\* a request arrives: the middleware answers it or hands it to the route
Receive(apiKey, role, capabilityName, args) ==
  /\ Len(requests) < MaxRequests
  /\ LET base == NewRequest(apiKey, role, capabilityName, args) IN
     CASE authenticate(apiKey, role) = "api_key_required" ->
            /\ requests' = Append(requests,
                  [base EXCEPT !.status = 401,
                               !.body = [NoBody EXCEPT !.error = "API key required"]])
            /\ UNCHANGED handlerLog
       [] authenticate(apiKey, role) = "invalid_api_key" ->
            /\ requests' = Append(requests,
                  [base EXCEPT !.status = 401,
                               !.body = [NoBody EXCEPT !.error = "Invalid API key"]])
            /\ UNCHANGED handlerLog
       [] authenticate(apiKey, role) = "role_required" ->
            /\ requests' = Append(requests,
                  [base EXCEPT !.status = 400,
                               !.body = [NoBody EXCEPT !.error = "Valid role required"]])
            /\ UNCHANGED handlerLog
       [] authenticate(apiKey, role) = "next" ->
            Route(apiKey, role, capabilityName, args)
  /\ UNCHANGED <<auditLog, listing, platform, pvars>>

\* the handlers of the four pipeline stages: every failure inside them is
\* caught and comes back as an envelope with ok:false
V1Handlers == {"repoClone", "supabaseEnsure", "supabaseApply", "releaseDeploy"}

\* handlers that take no argument and catch every failure of what they call
TotalHandlers == {"platformInfo", "platformCheck", "appsList"}

\* handlers whose only failure is the validateArgs call they start with
ValidatingOnlyHandlers == {"appsEnvExample", "appsValidate"}

\* validate.ts validateArgs as the handlers other than the stages call it on
\* entry: a body without appName is refused by a throw
validateArgsPasses(args) == args # "no_appName"

HandlerOf(i) == getCapability(requests[i].capability).handler

\* the handler comes back with a value
MayReturn(handler, args) ==
  \/ handler \in V1Handlers \cup TotalHandlers
  \/ validateArgsPasses(args)

\* the handler raises: nothing in it catches a failed validateArgs, driver or
\* filesystem call
MayThrow(handler, args) ==
  /\ handler \notin V1Handlers \cup TotalHandlers
  /\ handler \in ValidatingOnlyHandlers => ~validateArgsPasses(args)

\* handlers among which deployDown, too, removes the tree of the application
HandlerEffectsDownRemoves(handler, args, completed) ==
  IF handler \notin V1Handlers \cup TotalHandlers /\ ~validateArgsPasses(args)
    THEN {platform}
  ELSE CASE handler \in {"appsRemove", "deployDown"} ->
              {[platform EXCEPT !.tree = IF completed THEN FALSE ELSE @]}
         [] handler = "appsInit" ->
              IF completed THEN {[platform EXCEPT !.tree = TRUE]}
              ELSE {platform, [platform EXCEPT !.tree = TRUE]}
         [] handler = "dbCreate" ->
              IF completed THEN {[platform EXCEPT !.database = TRUE]} ELSE {platform}
         [] OTHER -> {platform}

\* the application after a handler has run: appsRemove drops the database
\* (a failure is ignored) and removes the tree; appsInit and the stages make
\* directories under the application; dbCreate creates the database
HandlerEffects(handler, args, completed) ==
  IF handler \notin V1Handlers \cup TotalHandlers /\ ~validateArgsPasses(args)
    THEN {platform}
  ELSE CASE handler = "appsRemove" ->
              { [tree |-> IF completed THEN FALSE ELSE platform.tree, database |-> d] :
                  d \in {FALSE, platform.database} }
         [] handler = "appsInit" ->
              IF completed THEN {[platform EXCEPT !.tree = TRUE]}
              ELSE {platform, [platform EXCEPT !.tree = TRUE]}
         [] handler = "dbCreate" ->
              IF completed THEN {[platform EXCEPT !.database = TRUE]} ELSE {platform}
         [] handler \in {"repoClone", "supabaseEnsure", "releaseDeploy"} ->
              {platform, [platform EXCEPT !.tree = TRUE]}
         [] OTHER -> {platform}

\* the handler called by the route itself, outside the audit wrapper
HandlerReturnUnaudited(i) ==
  /\ i \in 1..Len(requests)
  /\ requests[i].pc = "handler"
  /\ MayReturn(HandlerOf(i), requests[i].args)
  /\ requests' = [requests EXCEPT ![i].pc = "respond", ![i].outcome = "return",
                                  ![i].result = "value", ![i].wrapper = "return"]
  /\ platform' \in HandlerEffects(HandlerOf(i), requests[i].args, TRUE)
  /\ UNCHANGED <<auditLog, handlerLog, listing, pvars>>

\* the handler's promise resolves inside the audit wrapper: a stage with its
\* success envelope, another handler with its value
HandlerReturn(i) ==
  /\ i \in 1..Len(requests)
  /\ requests[i].pc = "handler"
  /\ MayReturn(HandlerOf(i), requests[i].args)
  /\ requests' = [requests EXCEPT ![i].pc = "audit", ![i].outcome = "return",
                    ![i].result = IF HandlerOf(i) \in V1Handlers THEN "envelope_ok"
                                  ELSE "value"]
  /\ platform' \in HandlerEffects(HandlerOf(i), requests[i].args, TRUE)
  /\ UNCHANGED <<auditLog, handlerLog, listing, pvars>>

\* the promise of a stage resolves with the envelope of its catch block
HandlerReturnFailed(i) ==
  /\ i \in 1..Len(requests)
  /\ requests[i].pc = "handler"
  /\ HandlerOf(i) \in V1Handlers
  /\ requests' = [requests EXCEPT ![i].pc = "audit", ![i].outcome = "return",
                                  ![i].result = "envelope_failed"]
  /\ platform' \in HandlerEffects(HandlerOf(i), requests[i].args, FALSE)
  /\ UNCHANGED <<auditLog, handlerLog, listing, pvars>>

\* the handler's promise rejects inside the audit wrapper
HandlerThrow(i) ==
  /\ i \in 1..Len(requests)
  /\ requests[i].pc = "handler"
  /\ MayThrow(HandlerOf(i), requests[i].args)
  /\ requests' = [requests EXCEPT ![i].pc = "audit", ![i].outcome = "throw"]
  /\ platform' \in HandlerEffects(HandlerOf(i), requests[i].args, FALSE)
  /\ UNCHANGED <<auditLog, handlerLog, listing, pvars>>

\* audit.ts auditCapabilityCall: the entry for the finished handler is
\* appended; the wrapper then returns the result or rethrows the error
AuditRecord(i) ==
  /\ i \in 1..Len(requests)
  /\ requests[i].pc = "audit"
  /\ auditLog' = Append(auditLog,
        [requestId |-> i, capability |-> requests[i].capability,
         role |-> requests[i].role,
         result |-> IF requests[i].outcome = "return" THEN "success" ELSE "error"])
  /\ requests' = [requests EXCEPT ![i].pc = "respond", ![i].audit = "written",
                                  ![i].wrapper = requests[i].outcome]
  /\ UNCHANGED <<handlerLog, listing, platform, pvars>>

\* audit.ts auditCapabilityCall: the append to the audit destination fails;
\* nothing is recorded and the wrapper raises the operational error
AuditWriteFails(i) ==
  /\ i \in 1..Len(requests)
  /\ requests[i].pc = "audit"
  /\ requests' = [requests EXCEPT ![i].pc = "respond", ![i].audit = "failed",
                                  ![i].wrapper = "throw"]
  /\ UNCHANGED <<auditLog, handlerLog, listing, platform, pvars>>

\* a route without the catch block: a throw of the wrapper leaves the route
RespondNoCatch(i) ==
  /\ i \in 1..Len(requests)
  /\ requests[i].pc = "respond"
  /\ requests' =
       IF requests[i].wrapper = "return"
         THEN [requests EXCEPT ![i].pc = "done", ![i].status = 200,
                               ![i].responses = @ + 1,
                               ![i].body = [NoBody EXCEPT !.success = "true",
                                                          !.result = requests[i].result]]
         ELSE [requests EXCEPT ![i].pc = "done"]
  /\ UNCHANGED <<auditLog, handlerLog, listing, platform, pvars>>

\* the route resumes after the await: res.json({ success: true, result }) on
\* a result, status 500 with success:false and the message on a throw
Respond(i) ==
  /\ i \in 1..Len(requests)
  /\ requests[i].pc = "respond"
  /\ requests' =
       IF requests[i].wrapper = "return"
         THEN [requests EXCEPT ![i].pc = "done", ![i].status = 200,
                               ![i].responses = @ + 1,
                               ![i].body = [NoBody EXCEPT !.success = "true",
                                                          !.result = requests[i].result]]
         ELSE [requests EXCEPT ![i].pc = "done", ![i].status = 500,
                               ![i].responses = @ + 1,
                               ![i].body = [NoBody EXCEPT !.success = "false",
                                                          !.error = "execution error"]]
  /\ UNCHANGED <<auditLog, handlerLog, listing, platform, pvars>>

\* number of getCapabilitiesForRole calls the registry model answers
MaxListings == 4

\* a transport asks for the capabilities of a role
ListForRole(role) ==
  /\ Len(listing) < MaxListings
  /\ listing' = Append(listing, [role |-> role, caps |-> getCapabilitiesForRole(role)])
  /\ UNCHANGED <<requests, auditLog, handlerLog, platform, pvars>>

\* ------------------------------------------------------------------------
\* Pipeline stages: configuration, inputs and helpers
\* ------------------------------------------------------------------------

\* config.appsRoot
appsRoot == <<"/", "srv", "/", "apps">>

\* atoms sanitizeAppName removes from an application name
UnsafeAtoms == {"/", "..", ".", " "}

\* security.ts sanitizeAppName: strips separators, parent-directory segments
\* and non-portable characters
sanitizeAppName(name) == SelectSeq(name, LAMBDA a : a \notin UnsafeAtoms)

\* security.ts validatePath: the resolved path is a descendant of
\* <root>/<token> and the candidate holds no traversal segment
validatePath(path, token) ==
  /\ IsDescendant(path, Join(<<appsRoot, token>>))
  /\ \A k \in 1..Len(Split(path)) : Split(path)[k] # <<"..">>

\* the single allowed origin of repo.clone
GitHubPrefix == <<"https://", "github.com/">>

AppSlugs == { <<"demo">>, <<"..", "/", "demo">> }

TraversalId == <<"..", "/", "..", "/", "..", "/", "etc">>

ReleaseIds == { <<"rel1">>, <<"rel2">>, TraversalId }

GitUrls == { <<"https://", "github.com/", "org", "/", "repo">>,
             <<"https://", "gitlab.com/", "repo">>,
             <<"http://", "github.com/", "org", "/", "repo">> }

CanonicalSrc == <<"/", "srv", "/", "apps", "/", "demo", "/", "src">>

ProjectPaths == { CanonicalSrc,
                  <<"/", "wrong", "/", "path">>,
                  <<"/", "srv", "/", "apps", "/", "demo", "/", "x", "/", "..", "/", "src">> }

\* names of environment variables a deploy may require
KeyK == <<"K">>
KeyE == <<"E">>

EnvRequiredLists == { << >>, <<KeyK>>, <<KeyK, KeyE>> }

\* the .env files an application may have: absent, or KEY=VALUE lines
EnvLine(key, value) == [key |-> key, value |-> value]

EnvFiles ==
  { [exists |-> FALSE, lines |-> << >>],
    [exists |-> TRUE,  lines |-> <<EnvLine(KeyE, <<"v">>)>>],
    [exists |-> TRUE,  lines |-> <<EnvLine(<<"M", "K">>, <<"v">>)>>],
    [exists |-> TRUE,  lines |-> <<EnvLine(<<"X">>, <<"K", "=", "v">>), EnvLine(KeyE, <<"v">>)>>],
    [exists |-> TRUE,  lines |-> <<EnvLine(KeyK, <<"v">>), EnvLine(KeyE, <<"w">>)>>] }

RECURSIVE EnvText(_)
\* the text of a .env file: one KEY=VALUE line after the other
EnvText(lines) ==
  IF lines = << >> THEN << >>
  ELSE Head(lines).key \o <<"=">> \o Head(lines).value \o <<"\n">> \o EnvText(Tail(lines))

\* finite maps
EmptyMap == [x \in {} |-> << >>]

Put(f, k, v) == [x \in (DOMAIN f) \cup {k} |-> IF x = k THEN v ELSE f[x]]

Remove(f, k) == [x \in (DOMAIN f) \ {k} |-> f[x]]

\* one filesystem or process operation handed a path
Io(op, path) == [op |-> op, path |-> path]

MutatingOps == {"mkdir", "writeFile", "cp", "unlink", "symlink", "exec", "composeUp"}

NoError == [code |-> "none", message |-> << >>, hint |-> << >>]

Error(code, message) == [code |-> code, message |-> message, hint |-> << >>]

\* v1_tools.ts createV1Response (timestamps left out)
createV1Response(release_id, action, summary, ok, artifacts, error) ==
  [ok |-> ok, release_id |-> release_id, action |-> action, summary |-> summary,
   warnings |-> << >>, artifacts |-> artifacts, error |-> error]

NoEnvelope == createV1Response(<< >>, "none", "none", FALSE, {}, NoError)

NoArgs == [release_id |-> << >>, app_slug |-> << >>, git_url |-> << >>,
           project_path |-> << >>, env_required |-> << >>, domain |-> << >>,
           port |-> << >>]

\* what is on the managed root: directories, working copies, definition
\* files and how often they were written, running stacks and how often one
\* was started, release directories, links and the .env file
Observed(f) ==
  [dirs |-> f.dirs, repos |-> f.repos, compose |-> f.compose,
   composeWrites |-> f.composeWrites, stacks |-> f.stacks,
   stackStarts |-> f.stackStarts, releases |-> f.releases, links |-> f.links,
   env |-> f.env]

NoObservation ==
  [dirs |-> {}, repos |-> {}, compose |-> {}, composeWrites |-> 0, stacks |-> {},
   stackStarts |-> 0, releases |-> EmptyMap, links |-> EmptyMap,
   env |-> [exists |-> FALSE, lines |-> << >>]]

IdleCall == [stage |-> "none", pc |-> "idle", args |-> NoArgs, io |-> << >>,
             validated |-> FALSE, gitMode |-> "none", envelope |-> NoEnvelope,
             before |-> NoObservation, swallowed |-> {}]

\* the message of an operating-system or driver error
IoError == <<"operation failed">>

\* the catch block of a stage: the failed envelope with the stage's code
Caught(c, summary, code, message) ==
  [c EXCEPT !.pc = "done",
            !.envelope = createV1Response(c.args.release_id, c.stage, summary, FALSE, {},
                                          Error(code, message))]

\* the paths of an invocation
SafeSlug(c)    == sanitizeAppName(c.args.app_slug)
SrcPath(c)     == Join(<<Join(<<appsRoot, SafeSlug(c)>>), <<"src">>>>)
LogDir(c)      == Join(<<appsRoot, SafeSlug(c), <<"logs">>, c.args.release_id>>)
LogPath(c)     == Join(<<LogDir(c), <<c.stage, ".log">>>>)
ReleasePath(c) == Join(<<appsRoot, SafeSlug(c), <<"releases">>, c.args.release_id>>)
CurrentLink(c) == Join(<<appsRoot, SafeSlug(c), <<"current">>>>)
EnvPath(c)     == Join(<<appsRoot, SafeSlug(c), <<".env">>>>)
SupabasePath(c) == Join(<<appsRoot, SafeSlug(c), <<"supabase">>>>)
ComposePath(c) == Join(<<SupabasePath(c), <<"docker-compose.yml">>>>)
ExpectedPath(c) == Join(<<appsRoot, SafeSlug(c), <<"src">>>>)

\* the code and summary a stage's catch block reports
FailCode(stage) ==
  CASE stage = "repo.clone"      -> "REPO_CLONE_FAILED"
    [] stage = "supabase.ensure" -> "SUPABASE_BOOT_FAILED"
    [] stage = "supabase.apply"  -> "DB_MIGRATION_FAILED"
    [] stage = "release.deploy"  -> "APP_DEPLOY_FAILED"

FailSummary(stage) ==
  CASE stage = "repo.clone"      -> "Failed to clone repository"
    [] stage = "supabase.ensure" -> "Failed to boot Supabase"
    [] stage = "supabase.apply"  -> "Failed to apply Supabase changes"
    [] stage = "release.deploy"  -> "Failed to deploy application"

\* an error thrown inside the try block of a stage
Throw(c, message) == Caught(c, FailSummary(c.stage), FailCode(c.stage), message)

\* a stage returns its success envelope
Return(c, summary, artifacts) ==
  [c EXCEPT !.pc = "done",
            !.envelope = createV1Response(c.args.release_id, c.stage, summary, TRUE,
                                          artifacts, NoError)]

Slots == {1, 2}

MayStart(s) ==
  /\ calls[s].pc = "idle"
  /\ started < MaxCalls

\* the caller has taken the envelope of a returned invocation
Collect(s) ==
  /\ calls[s].pc = "done"
  /\ calls' = [calls EXCEPT ![s] = IdleCall]
  /\ UNCHANGED <<fs, started, outcomes, dvars>>

\* the fields in which two argument records differ
Differing(a, b) == {f \in DOMAIN a : a[f] # b[f]}

\* the arguments stages are invoked with: a plain invocation of the demo
\* application, and every invocation that differs from it in one argument
PlainArgs ==
  [release_id |-> <<"rel1">>, app_slug |-> <<"demo">>,
   git_url |-> <<"https://", "github.com/", "org", "/", "repo">>,
   project_path |-> CanonicalSrc, env_required |-> <<KeyK>>, domain |-> << >>]

OneOff(fields, candidates) ==
  { a \in candidates :
      Cardinality(Differing(a, [f \in fields |-> PlainArgs[f]])) <= 1 }

\* an invocation begins; before is what was on disk at that moment
NewCall(stage, args) ==
  [IdleCall EXCEPT !.stage = stage, !.args = args, !.before = Observed(fs)]

\* logV1Action: mkdir -p of the log directory, then an appending writeFile
LogOutcomes == {"ok", "mkdir_fails", "write_fails"}

\* a write without the append flag: the file holds the last line only
LogOverwrite(f, c, content) ==
  [f EXCEPT !.dirs = @ \cup {LogDir(c)},
            !.logs = Put(@, LogPath(c), <<content>>)]

\* writeFile(logPath, content, { flag: 'a' }) under the log directory made
\* first
LogAppend(f, c, content) ==
  [f EXCEPT !.dirs = @ \cup {LogDir(c)},
            !.logs = Put(@, LogPath(c),
                         (IF LogPath(c) \in DOMAIN @ THEN @[LogPath(c)] ELSE << >>)
                           \o <<content>>)]

\* the invocation after both operations of logV1Action have run
Logged(c) ==
  [c EXCEPT !.io = @ \o <<Io("mkdir", LogDir(c)), Io("writeFile", LogPath(c))>>]

\* after: the invocation as it continues when the log line was appended
logV1Action(s, content, after, outcome) ==
  LET c == calls[s] IN
  CASE outcome = "ok" ->
         /\ fs' = LogAppend(fs, c, content)
         /\ calls' = [calls EXCEPT ![s] = after]
    [] outcome = "mkdir_fails" ->
         /\ fs' = fs
         /\ calls' = [calls EXCEPT ![s] =
              Throw([c EXCEPT !.io = @ \o <<Io("mkdir", LogDir(c))>>], IoError)]
    [] outcome = "write_fails" ->
         /\ fs' = [fs EXCEPT !.dirs = @ \cup {LogDir(c)}]
         /\ calls' = [calls EXCEPT ![s] = Throw(Logged(c), IoError)]

\* ------------------------------------------------------------------------
\* repo.clone
\* ------------------------------------------------------------------------

\* a check of the scheme alone
isHttpsUrl(git_url) == StartsWith(git_url, <<"https://">>)

\* git_url.startsWith('https://github.com/')
isGitHubUrl(git_url) == StartsWith(git_url, GitHubPrefix)

\* repoClone up to its first await: sanitize, path check, origin check
StartRepoClone(s, release_id, app_slug, git_url) ==
  /\ MayStart(s)
  /\ LET c == [NewCall("repo.clone",
                 [NoArgs EXCEPT !.release_id = release_id, !.app_slug = app_slug,
                                !.git_url = git_url])
                 EXCEPT !.validated = TRUE]
     IN calls' = [calls EXCEPT ![s] =
          IF ~validatePath(SrcPath(c), SafeSlug(c))
            THEN Throw(c, <<"Path safety violation">>)
          ELSE IF ~isGitHubUrl(git_url)
            THEN Throw(c, <<"Only GitHub URLs are allowed">>)
          ELSE [c EXCEPT !.pc = "rc_mkdir"]]
  /\ started' = started + 1
  /\ UNCHANGED <<fs, outcomes, dvars>>

\* await mkdir(srcPath, { recursive: true })
RcMkdir(s) ==
  /\ calls[s].pc = "rc_mkdir"
  /\ LET c == [calls[s] EXCEPT !.io = @ \o <<Io("mkdir", SrcPath(calls[s]))>>] IN
     \E ok \in BOOLEAN :
       IF ok
         THEN /\ fs' = [fs EXCEPT !.dirs = @ \cup {SrcPath(c)}]
              /\ calls' = [calls EXCEPT ![s] = [c EXCEPT !.pc = "rc_log1"]]
         ELSE /\ fs' = fs
              /\ calls' = [calls EXCEPT ![s] = Throw(c, IoError)]
  /\ UNCHANGED <<started, outcomes, dvars>>

\* await logV1Action(..., `Cloning ...`)
RcLog1(s) ==
  /\ calls[s].pc = "rc_log1"
  /\ \E outcome \in LogOutcomes : logV1Action(s, "Cloning", [Logged(calls[s]) EXCEPT !.pc = "rc_access"], outcome)
  /\ UNCHANGED <<started, outcomes, dvars>>

\* the check of the working copy left out: the command is always the clone
RcAccessAlwaysClone(s) ==
  /\ calls[s].pc = "rc_access"
  /\ LET c == calls[s] IN
     calls' = [calls EXCEPT ![s] =
       [c EXCEPT !.pc = "rc_git",
                 !.io = @ \o <<Io("access", Join(<<SrcPath(c), <<".git">>>>))>>,
                 !.gitMode = "clone"]]
  /\ UNCHANGED <<fs, started, outcomes, dvars>>

\* await access(join(srcPath, '.git')) chooses between clone and update
RcAccess(s) ==
  /\ calls[s].pc = "rc_access"
  /\ LET c == calls[s] IN
     calls' = [calls EXCEPT ![s] =
       [c EXCEPT !.pc = "rc_git",
                 !.io = @ \o <<Io("access", Join(<<SrcPath(c), <<".git">>>>))>>,
                 !.gitMode = IF SrcPath(c) \in fs.repos THEN "update" ELSE "clone"]]
  /\ UNCHANGED <<fs, started, outcomes, dvars>>

\* await execAsync(gitCommand, { cwd: srcPath }): "checkout_fails" is a
\* command whose first part ran and whose checkout of the ref failed
RcGit(s) ==
  /\ calls[s].pc = "rc_git"
  /\ LET c == [calls[s] EXCEPT !.io = @ \o <<Io("exec", SrcPath(calls[s]))>>] IN
     \E result \in {"ok", "fails", "checkout_fails"} :
       /\ fs' = IF c.gitMode = "clone" /\ result # "fails"
                  THEN [fs EXCEPT !.repos = @ \cup {SrcPath(c)}]
                  ELSE fs
       /\ calls' = [calls EXCEPT ![s] =
            IF result = "ok" THEN [c EXCEPT !.pc = "rc_log2"] ELSE Throw(c, IoError)]
  /\ UNCHANGED <<started, outcomes, dvars>>

\* await logV1Action(..., stdout + stderr)
RcLog2(s) ==
  /\ calls[s].pc = "rc_log2"
  /\ \E outcome \in LogOutcomes : logV1Action(s, "git output", [Logged(calls[s]) EXCEPT !.pc = "rc_revparse"], outcome)
  /\ UNCHANGED <<started, outcomes, dvars>>

\* await execAsync('git rev-parse HEAD'), then the success envelope
RcRevParse(s) ==
  /\ calls[s].pc = "rc_revparse"
  /\ LET c == [calls[s] EXCEPT !.io = @ \o <<Io("exec", SrcPath(calls[s]))>>] IN
     \E ok \in BOOLEAN :
       calls' = [calls EXCEPT ![s] =
         IF ok THEN Return(c, "Successfully cloned", {<<"commit_hash", <<"HEAD">>>>})
         ELSE Throw(c, IoError)]
  /\ UNCHANGED <<fs, started, outcomes, dvars>>

\* ------------------------------------------------------------------------
\* supabase.ensure
\* ------------------------------------------------------------------------

\* supabaseEnsure up to its first await
StartSupabaseEnsure(s, release_id, app_slug) ==
  /\ MayStart(s)
  /\ calls' = [calls EXCEPT ![s] =
       [NewCall("supabase.ensure",
          [NoArgs EXCEPT !.release_id = release_id, !.app_slug = app_slug])
        EXCEPT !.pc = "se_mkdir"]]
  /\ started' = started + 1
  /\ UNCHANGED <<fs, outcomes, dvars>>

\* await mkdir(supabasePath, { recursive: true })
SeMkdir(s) ==
  /\ calls[s].pc = "se_mkdir"
  /\ LET c == [calls[s] EXCEPT !.io = @ \o <<Io("mkdir", SupabasePath(calls[s]))>>] IN
     \E ok \in BOOLEAN :
       IF ok
         THEN /\ fs' = [fs EXCEPT !.dirs = @ \cup {SupabasePath(c)}]
              /\ calls' = [calls EXCEPT ![s] = [c EXCEPT !.pc = "se_access"]]
         ELSE /\ fs' = fs
              /\ calls' = [calls EXCEPT ![s] = Throw(c, IoError)]
  /\ UNCHANGED <<started, outcomes, dvars>>

\* the definition file is written whether or not there is one
SeAccessAlwaysWrites(s) ==
  /\ calls[s].pc = "se_access"
  /\ LET c == calls[s] IN
     calls' = [calls EXCEPT ![s] =
       [c EXCEPT !.io = @ \o <<Io("access", ComposePath(c))>>, !.pc = "se_write"]]
  /\ UNCHANGED <<fs, started, outcomes, dvars>>

\* await access(composePath): an existing definition file is kept
SeAccess(s) ==
  /\ calls[s].pc = "se_access"
  /\ LET c == calls[s] IN
     calls' = [calls EXCEPT ![s] =
       [c EXCEPT !.io = @ \o <<Io("access", ComposePath(c))>>,
                 !.pc = IF ComposePath(c) \in fs.compose THEN "se_log1" ELSE "se_write"]]
  /\ UNCHANGED <<fs, started, outcomes, dvars>>

\* await writeFile(composePath, mockCompose)
SeWrite(s) ==
  /\ calls[s].pc = "se_write"
  /\ LET c == [calls[s] EXCEPT !.io = @ \o <<Io("writeFile", ComposePath(calls[s]))>>] IN
     \E ok \in BOOLEAN :
       IF ok
         THEN /\ fs' = [fs EXCEPT !.compose = @ \cup {ComposePath(c)},
                                  !.composeWrites = @ + 1]
              /\ calls' = [calls EXCEPT ![s] = [c EXCEPT !.pc = "se_log1"]]
         ELSE /\ fs' = fs
              /\ calls' = [calls EXCEPT ![s] = Throw(c, IoError)]
  /\ UNCHANGED <<started, outcomes, dvars>>

\* await logV1Action(..., `Starting Supabase stack ...`)
SeLog1(s) ==
  /\ calls[s].pc = "se_log1"
  /\ \E outcome \in LogOutcomes :
       logV1Action(s, "Starting Supabase stack", [Logged(calls[s]) EXCEPT !.pc = "se_up"], outcome)
  /\ UNCHANGED <<started, outcomes, dvars>>

\* await docker.dockerComposeUp({ cwd: supabasePath }): the driver starts the
\* stack of the directory unless it is running already
SeUp(s) ==
  /\ calls[s].pc = "se_up"
  /\ LET c == [calls[s] EXCEPT !.io = @ \o <<Io("composeUp", SupabasePath(calls[s]))>>] IN
     \E ok \in BOOLEAN :
       IF ok
         THEN /\ fs' = [fs EXCEPT !.stacks = @ \cup {SupabasePath(c)},
                                  !.stackStarts = IF SupabasePath(c) \in fs.stacks
                                                    THEN @ ELSE @ + 1]
              /\ calls' = [calls EXCEPT ![s] = [c EXCEPT !.pc = "se_log2"]]
         ELSE /\ fs' = fs
              /\ calls' = [calls EXCEPT ![s] = Throw(c, IoError)]
  /\ UNCHANGED <<started, outcomes, dvars>>

SupabaseArtifacts ==
  { <<"supabase_url", <<"http://localhost:8000">>>>, <<"db_host", <<"localhost">>>>,
    <<"db_port", <<"5432">>>>, <<"db_name", <<"postgres">>>> }

\* await logV1Action(..., output), then the success envelope
SeLog2(s) ==
  /\ calls[s].pc = "se_log2"
  /\ \E outcome \in LogOutcomes :
       logV1Action(s, "compose output",
                   Return(Logged(calls[s]), "Supabase stack is up", SupabaseArtifacts), outcome)
  /\ UNCHANGED <<started, outcomes, dvars>>

\* ------------------------------------------------------------------------
\* supabase.apply
\* ------------------------------------------------------------------------

\* a comparison of the resolved paths
pathMismatchResolved(project_path, expectedPath) == Normalize(project_path) # expectedPath

\* project_path !== expectedPath: the strings are compared as given
pathMismatch(project_path, expectedPath) == project_path # expectedPath

\* supabaseApply up to its first await: the project path must be the expected one
StartSupabaseApply(s, release_id, app_slug, project_path) ==
  /\ MayStart(s)
  /\ LET c == NewCall("supabase.apply",
                 [NoArgs EXCEPT !.release_id = release_id, !.app_slug = app_slug,
                                !.project_path = project_path])
     IN calls' = [calls EXCEPT ![s] =
          IF pathMismatch(project_path, ExpectedPath(c))
            THEN Throw(c, <<"project_path must equal ">> \o ExpectedPath(c))
            ELSE [c EXCEPT !.pc = "sa_access"]]
  /\ started' = started + 1
  /\ UNCHANGED <<fs, outcomes, dvars>>

\* await access(supabaseDir): the checkout may or may not hold a supabase directory
SaAccess(s) ==
  /\ calls[s].pc = "sa_access"
  /\ LET c == [calls[s] EXCEPT !.io = @ \o
                 <<Io("access", Join(<<calls[s].args.project_path, <<"supabase">>>>))>>] IN
     \E found \in BOOLEAN :
       calls' = [calls EXCEPT ![s] =
         IF found /\ c.args.project_path \in fs.repos
           THEN [c EXCEPT !.pc = "sa_log"]
           ELSE Throw(c, IoError)]
  /\ UNCHANGED <<fs, started, outcomes, dvars>>

\* await logV1Action(..., `Applying migrations ...`), then the success envelope
SaLog(s) ==
  /\ calls[s].pc = "sa_log"
  /\ \E outcome \in LogOutcomes :
       logV1Action(s, "Applying migrations",
                   Return(Logged(calls[s]), "Supabase migrations and functions applied",
                                     { <<"migrations_applied", <<"true">>>>,
                                       <<"last_migration", <<"initial_schema">>>> }),
                   outcome)
  /\ UNCHANGED <<started, outcomes, dvars>>

\* ------------------------------------------------------------------------
\* release.deploy
\* ------------------------------------------------------------------------

Domains == { << >>, <<"app.example.com">> }

CloneArgs ==
  OneOff({"release_id", "app_slug", "git_url"},
         [release_id : ReleaseIds, app_slug : AppSlugs, git_url : GitUrls])

EnsureArgs ==
  OneOff({"release_id", "app_slug"}, [release_id : ReleaseIds, app_slug : AppSlugs])

ApplyArgs ==
  OneOff({"release_id", "app_slug", "project_path"},
         [release_id : ReleaseIds, app_slug : AppSlugs, project_path : ProjectPaths])

DeployArgs ==
  OneOff({"release_id", "app_slug", "project_path", "env_required", "domain"},
         [release_id : ReleaseIds, app_slug : AppSlugs, project_path : ProjectPaths,
          env_required : EnvRequiredLists, domain : Domains])

Port == <<"3000">>

\* the keys not found, followed by what was read
missingKeysWithContent(env_required, envContent) ==
  LET all == SelectSeq(env_required, LAMBDA key : ~Includes(envContent, key \o <<"=">>))
  IN IF all = << >> THEN << >> ELSE Append(all, envContent)

\* a search that stops at the first key it misses
missingKeysFirstOnly(env_required, envContent) ==
  LET all == SelectSeq(env_required, LAMBDA key : ~Includes(envContent, key \o <<"=">>))
  IN IF all = << >> THEN << >> ELSE <<all[1]>>

\* env_required.filter(key => !envContent.includes(`${key}=`))
missingKeys(env_required, envContent) ==
  SelectSeq(env_required, LAMBDA key : ~Includes(envContent, key \o <<"=">>))

\* the deploy results recorded once an invocation of release.deploy has returned
Settle(s) ==
  outcomes' =
    IF calls'[s].pc = "done" /\ calls'[s].stage = "release.deploy"
      THEN LET path == ReleasePath(calls'[s])
               seen == IF path \in DOMAIN outcomes THEN outcomes[path] ELSE {}
           IN Put(outcomes, path, seen \cup {calls'[s].envelope.ok})
      ELSE outcomes

\* releaseDeploy up to its first await: the project path must be the expected one
StartReleaseDeploy(s, release_id, app_slug, project_path, env_required, domain) ==
  /\ MayStart(s)
  /\ LET c == NewCall("release.deploy",
                 [NoArgs EXCEPT !.release_id = release_id, !.app_slug = app_slug,
                                !.project_path = project_path,
                                !.env_required = env_required,
                                !.domain = domain, !.port = Port])
     IN calls' = [calls EXCEPT ![s] =
          IF pathMismatch(project_path, ExpectedPath(c))
            THEN Throw(c, <<"project_path must equal ">> \o ExpectedPath(c))
            ELSE [c EXCEPT !.pc = "rd_readenv"]]
  /\ started' = started + 1
  /\ Settle(s)
  /\ UNCHANGED <<fs, dvars>>

\* await readFile(envPath) (a failed read leaves the content empty), then the
\* required keys are looked for and the stage stops if one is missing
RdReadEnv(s) ==
  /\ calls[s].pc = "rd_readenv"
  /\ \E readOk \in BOOLEAN :
       LET c          == [calls[s] EXCEPT
                            !.io = @ \o <<Io("readFile", EnvPath(calls[s]))>>,
                            !.swallowed = IF fs.env.exists /\ ~readOk
                                            THEN @ \cup {"readFile"} ELSE @]
           envContent == IF fs.env.exists /\ readOk THEN EnvText(fs.env.lines) ELSE << >>
           missing    == missingKeys(c.args.env_required, envContent)
       IN calls' = [calls EXCEPT ![s] =
            IF Len(missing) > 0
              THEN [c EXCEPT !.pc = "done",
                             !.envelope = createV1Response(c.args.release_id, c.stage,
                               "Missing required environment variables", FALSE, {},
                               [code    |-> "ENV_MISSING_KEYS",
                                message |-> <<"Missing keys: ">> \o JoinWith(missing, <<", ">>),
                                hint    |-> <<"Ensure .env file contains all required keys">>])]
              ELSE [c EXCEPT !.pc = "rd_mkdir"]]
  /\ Settle(s)
  /\ UNCHANGED <<fs, started, dvars>>

\* await mkdir(releasePath, { recursive: true })
RdMkdir(s) ==
  /\ calls[s].pc = "rd_mkdir"
  /\ LET c == [calls[s] EXCEPT !.io = @ \o <<Io("mkdir", ReleasePath(calls[s]))>>] IN
     \E ok \in BOOLEAN :
       IF ok
         THEN /\ fs' = [fs EXCEPT !.dirs = @ \cup {ReleasePath(c)},
                                  !.releases = IF ReleasePath(c) \in DOMAIN @ THEN @
                                               ELSE Put(@, ReleasePath(c), "empty")]
              /\ calls' = [calls EXCEPT ![s] = [c EXCEPT !.pc = "rd_log1"]]
         ELSE /\ fs' = fs
              /\ calls' = [calls EXCEPT ![s] = Throw(c, IoError)]
  /\ Settle(s)
  /\ UNCHANGED <<started, dvars>>

\* await logV1Action(..., `Deploying to ...`)
RdLog1(s) ==
  /\ calls[s].pc = "rd_log1"
  /\ \E outcome \in LogOutcomes :
       logV1Action(s, "Deploying", [Logged(calls[s]) EXCEPT !.pc = "rd_cp"], outcome)
  /\ Settle(s)
  /\ UNCHANGED <<started, dvars>>

\* await execAsync(`cp -r ${project_path}/* ${releasePath}/`): the glob needs
\* a checkout with content; "partial" is a copy that failed part-way
RdCp(s) ==
  /\ calls[s].pc = "rd_cp"
  /\ LET c == [calls[s] EXCEPT !.io = @ \o <<Io("cp", calls[s].args.project_path),
                                             Io("cp", ReleasePath(calls[s]))>>] IN
     \E result \in {"ok", "fails", "partial"} :
       LET copied == IF c.args.project_path \in fs.repos THEN result ELSE "fails" IN
       /\ fs' = CASE copied = "ok"      -> [fs EXCEPT !.releases = Put(@, ReleasePath(c), "full")]
                  [] copied = "partial" -> [fs EXCEPT !.releases = Put(@, ReleasePath(c), "partial")]
                  [] copied = "fails"   -> fs
       /\ calls' = [calls EXCEPT ![s] =
            IF copied = "ok" THEN [c EXCEPT !.pc = "rd_unlink"] ELSE Throw(c, IoError)]
  /\ Settle(s)
  /\ UNCHANGED <<started, dvars>>

\* try { await unlink(currentLink) } catch {}: a failure is swallowed
RdUnlink(s) ==
  /\ calls[s].pc = "rd_unlink"
  /\ \E ok \in BOOLEAN :
       LET c == [calls[s] EXCEPT
                   !.io = @ \o <<Io("unlink", CurrentLink(calls[s]))>>,
                   !.swallowed = IF CurrentLink(calls[s]) \in DOMAIN fs.links /\ ~ok
                                   THEN @ \cup {"unlink"} ELSE @]
       IN
       /\ fs' = IF ok THEN [fs EXCEPT !.links = Remove(@, CurrentLink(c))] ELSE fs
       /\ calls' = [calls EXCEPT ![s] = [c EXCEPT !.pc = "rd_symlink"]]
  /\ Settle(s)
  /\ UNCHANGED <<started, dvars>>

\* symlink refuses to replace an existing link
LinkExists == <<"EEXIST: file already exists">>

\* a failed symlink followed by a clean-up that removes current
RdSymlinkUnlinksOnFailure(s) ==
  /\ calls[s].pc = "rd_symlink"
  /\ LET c == [calls[s] EXCEPT !.io = @ \o <<Io("symlink", CurrentLink(calls[s]))>>] IN
     \E ok \in BOOLEAN :
       IF CurrentLink(c) \in DOMAIN fs.links
         THEN /\ fs' = [fs EXCEPT !.links = Remove(@, CurrentLink(c))]
              /\ calls' = [calls EXCEPT ![s] = Throw(c, LinkExists)]
       ELSE IF ok
         THEN /\ fs' = [fs EXCEPT !.links = Put(@, CurrentLink(c), ReleasePath(c))]
              /\ calls' = [calls EXCEPT ![s] = [c EXCEPT !.pc = "rd_log2"]]
         ELSE /\ fs' = fs
              /\ calls' = [calls EXCEPT ![s] = Throw(c, IoError)]
  /\ Settle(s)
  /\ UNCHANGED <<started, dvars>>

\* await symlink(releasePath, currentLink): fails with EEXIST when the link
\* is (still, or again) there, or for a reason of its own
RdSymlink(s) ==
  /\ calls[s].pc = "rd_symlink"
  /\ LET c == [calls[s] EXCEPT !.io = @ \o <<Io("symlink", CurrentLink(calls[s]))>>] IN
     \E ok \in BOOLEAN :
       IF CurrentLink(c) \in DOMAIN fs.links
         THEN /\ fs' = fs
              /\ calls' = [calls EXCEPT ![s] = Throw(c, LinkExists)]
       ELSE IF ok
         THEN /\ fs' = [fs EXCEPT !.links = Put(@, CurrentLink(c), ReleasePath(c))]
              /\ calls' = [calls EXCEPT ![s] = [c EXCEPT !.pc = "rd_log2"]]
         ELSE /\ fs' = fs
              /\ calls' = [calls EXCEPT ![s] = Throw(c, IoError)]
  /\ Settle(s)
  /\ UNCHANGED <<started, dvars>>

\* artifacts whose app_url is always the local one
DeployArtifactsLocalUrl(c) ==
  { <<"app_url", <<"http://localhost:">> \o c.args.port>>,
    <<"healthcheck", <<"healthy">>>>,
    <<"release_path", ReleasePath(c)>>,
    <<"current_path", CurrentLink(c)>> }

\* the artifacts of a successful deploy
DeployArtifacts(c) ==
  { <<"app_url", IF c.args.domain # << >> THEN <<"https://">> \o c.args.domain
                 ELSE <<"http://localhost:">> \o c.args.port>>,
    <<"healthcheck", <<"healthy">>>>,
    <<"release_path", ReleasePath(c)>>,
    <<"current_path", CurrentLink(c)>> }

\* await logV1Action(..., `Starting app via ...`), then the success envelope
RdLog2(s) ==
  /\ calls[s].pc = "rd_log2"
  /\ \E outcome \in LogOutcomes :
       logV1Action(s, "Starting app",
                   Return(Logged(calls[s]), "Application deployed successfully", DeployArtifacts(calls[s])),
                   outcome)
  /\ Settle(s)
  /\ UNCHANGED <<started, dvars>>

\* ------------------------------------------------------------------------
\* Specifications
\* ------------------------------------------------------------------------

InitDispatcher ==
  /\ requests = << >>
  /\ auditLog = << >>
  /\ handlerLog = << >>
  /\ listing = << >>
  /\ platform = [tree |-> FALSE, database |-> FALSE]

InitFs(env) ==
  [dirs |-> {}, logs |-> EmptyMap, releases |-> EmptyMap, links |-> EmptyMap,
   repos |-> {}, compose |-> {}, composeWrites |-> 0, stacks |-> {}, stackStarts |-> 0,
   env |-> env]

\* the managed root after an earlier run has cloned the demo application
\* and its .env holds both keys
ClonedFs ==
  [InitFs([exists |-> TRUE,
           lines |-> <<EnvLine(KeyK, <<"v">>), EnvLine(KeyE, <<"w">>)>>])
     EXCEPT !.dirs = {CanonicalSrc}, !.repos = {CanonicalSrc}]

InitPipeline ==
  /\ calls = [s \in Slots |-> IdleCall]
  /\ started = 0
  /\ \/ \E env \in EnvFiles : fs = InitFs(env)
     \/ fs = ClonedFs
  /\ outcomes = EmptyMap

\* the dispatcher alone: requests are served concurrently
InitD ==
  /\ InitDispatcher
  /\ calls = [s \in Slots |-> IdleCall]
  /\ started = 0
  /\ fs = InitFs([exists |-> FALSE, lines |-> << >>])
  /\ outcomes = EmptyMap

NextD ==
  \/ \E name \in RequestNames, role \in Roles : Execute(name, role)
  \/ \E i \in 1..MaxRequests : HandlerReturn(i)
  \/ \E i \in 1..MaxRequests : HandlerReturnFailed(i)
  \/ \E i \in 1..MaxRequests : HandlerThrow(i)
  \/ \E i \in 1..MaxRequests : AuditRecord(i)
  \/ \E i \in 1..MaxRequests : AuditWriteFails(i)
  \/ \E i \in 1..MaxRequests : Respond(i)

SpecDispatcher == InitD /\ [][NextD]_vars

\* the requests the transport is sent: bad and missing keys and roles, the
\* stages asked for by every role up to builder, the life of an application
\* from apps.init to apps.remove, and bodies that do not fit the schema
Arrival(apiKey, role, capabilityName, args) ==
  [apiKey |-> apiKey, role |-> role, capability |-> capabilityName, args |-> args]

V1Names == {"repo.clone", "supabase.ensure", "supabase.apply", "release.deploy"}

Arrivals ==
  { Arrival(k, r, "release.deploy", WellFormed) :
      k \in {"missing", "invalid"}, r \in {"missing", "root", "builder"} }
  \cup { Arrival("valid", r, "release.deploy", WellFormed) : r \in {"missing", "root"} }
  \cup { Arrival("valid", r, n, WellFormed) : r \in {"observer", "operator"}, n \in V1Names }
  \cup { Arrival("valid", "builder", "release.deploy", a) : a \in {WellFormed, "port_as_string"} }
  \cup { Arrival("valid", "builder", "apps.init", a) : a \in {WellFormed, "no_appName"} }
  \cup { Arrival("valid", r, "apps.remove", WellFormed) : r \in {"builder", "admin"} }
  \cup { Arrival("valid", "operator", "deploy.down", WellFormed),
         Arrival("valid", "builder", "db.create", WellFormed),
         Arrival("valid", "admin", "no.such", WellFormed) }

\* the transport: the middleware in front of the route, requests served
\* concurrently
NextT ==
  \/ \E a \in Arrivals : Receive(a.apiKey, a.role, a.capability, a.args)
  \/ \E i \in 1..MaxRequests : HandlerReturn(i)
  \/ \E i \in 1..MaxRequests : HandlerReturnFailed(i)
  \/ \E i \in 1..MaxRequests : HandlerThrow(i)
  \/ \E i \in 1..MaxRequests : AuditRecord(i)
  \/ \E i \in 1..MaxRequests : AuditWriteFails(i)
  \/ \E i \in 1..MaxRequests : Respond(i)

SpecTransport == InitD /\ [][NextT]_vars

\* GET /health: the middleware registered before the route sees the request
\* first; the route itself answers { status: 'healthy' }
Health(apiKey, role) ==
  /\ Len(requests) < MaxRequests
  /\ LET base == NewRequest(apiKey, role, "GET /health", WellFormed) IN
     requests' = Append(requests,
       CASE authenticate(apiKey, role) = "api_key_required" ->
              [base EXCEPT !.status = 401,
                           !.body = [NoBody EXCEPT !.error = "API key required"]]
         [] authenticate(apiKey, role) = "invalid_api_key" ->
              [base EXCEPT !.status = 401,
                           !.body = [NoBody EXCEPT !.error = "Invalid API key"]]
         [] authenticate(apiKey, role) = "role_required" ->
              [base EXCEPT !.status = 400,
                           !.body = [NoBody EXCEPT !.error = "Valid role required"]]
         [] authenticate(apiKey, role) = "next" ->
              [base EXCEPT !.status = 200,
                           !.body = [NoBody EXCEPT !.result = "healthy"]])
  /\ UNCHANGED <<auditLog, handlerLog, listing, platform, pvars>>

\* the health probes: curl without headers, as the scripts issue it, and
\* probes that carry a key, a role or both
HealthProbes ==
  { <<k, r>> : k \in {"missing", "invalid", "valid"},
               r \in {"missing", "root", "observer", "admin"} }

\* the execute requests served next to the probes
HealthTraffic ==
  { Arrival("valid", "builder", "release.deploy", WellFormed),
    Arrival("valid", "builder", "apps.init", "no_appName"),
    Arrival("valid", "observer", "platform.info", WellFormed) }

\* the server with its health route
NextH ==
  \/ \E p \in HealthProbes : Health(p[1], p[2])
  \/ \E a \in HealthTraffic : Receive(a.apiKey, a.role, a.capability, a.args)
  \/ \E i \in 1..MaxRequests : HandlerReturn(i)
  \/ \E i \in 1..MaxRequests : HandlerReturnFailed(i)
  \/ \E i \in 1..MaxRequests : HandlerThrow(i)
  \/ \E i \in 1..MaxRequests : AuditRecord(i)
  \/ \E i \in 1..MaxRequests : AuditWriteFails(i)
  \/ \E i \in 1..MaxRequests : Respond(i)

SpecHealth == InitD /\ [][NextH]_vars

\* the registry alone: capability listings asked for one after the other
NextR == \E role \in Roles : ListForRole(role)

SpecRegistry == InitD /\ [][NextR]_vars

\* the pipeline stages called one after the other on the managed root
InitP ==
  /\ InitDispatcher
  /\ InitPipeline

StageStep(s) ==
  \/ RcMkdir(s) \/ RcLog1(s) \/ RcAccess(s) \/ RcGit(s) \/ RcLog2(s) \/ RcRevParse(s)
  \/ SeMkdir(s) \/ SeAccess(s) \/ SeWrite(s) \/ SeLog1(s) \/ SeUp(s) \/ SeLog2(s)
  \/ SaAccess(s) \/ SaLog(s)
  \/ RdReadEnv(s) \/ RdMkdir(s) \/ RdLog1(s) \/ RdCp(s) \/ RdUnlink(s) \/ RdSymlink(s)
  \/ RdLog2(s)

StageStart(s) ==
  \/ \E a \in CloneArgs : StartRepoClone(s, a.release_id, a.app_slug, a.git_url)
  \/ \E a \in EnsureArgs : StartSupabaseEnsure(s, a.release_id, a.app_slug)
  \/ \E a \in ApplyArgs : StartSupabaseApply(s, a.release_id, a.app_slug, a.project_path)
  \/ \E a \in DeployArgs :
        StartReleaseDeploy(s, a.release_id, a.app_slug, a.project_path, a.env_required,
                           a.domain)

NextP == StageStart(1) \/ StageStep(1) \/ Collect(1)

SpecPipeline == InitP /\ [][NextP]_vars

\* the steps of release.deploy after its first await
DeployStep(s) ==
  \/ RdReadEnv(s) \/ RdMkdir(s) \/ RdLog1(s) \/ RdCp(s) \/ RdUnlink(s) \/ RdSymlink(s)
  \/ RdLog2(s)

\* the .env files an operator may put in place of the present one
EditedEnvFiles == EnvFiles \cup { [exists |-> TRUE, lines |-> <<EnvLine(KeyE, <<"w">>)>>] }

\* the operator replaces the application's .env between two deploys
EditEnv(env) ==
  /\ calls[1].pc = "done"
  /\ calls[2].pc = "idle"
  /\ env # fs.env
  /\ fs' = [fs EXCEPT !.env = env]
  /\ UNCHANGED <<calls, started, outcomes, dvars>>

\* the same deploy asked for a second time once the first has returned
RepeatReleaseDeploy(s) ==
  /\ calls[1].pc = "done"
  /\ LET a == calls[1].args IN
     StartReleaseDeploy(s, a.release_id, a.app_slug, a.project_path, a.env_required,
                        a.domain)

\* a deploy, a change of .env, and the same deploy again; both results are
\* kept side by side
NextS ==
  \/ \E a \in DeployArgs :
        StartReleaseDeploy(1, a.release_id, a.app_slug, a.project_path, a.env_required,
                           a.domain)
  \/ \E env \in EditedEnvFiles : EditEnv(env)
  \/ RepeatReleaseDeploy(2)
  \/ DeployStep(1)
  \/ DeployStep(2)

SpecSecrets == InitP /\ [][NextS]_vars

\* a second release.deploy on the demo application, under another release
\* id, begins while the first has not returned
ConcurrentDeploy(s) ==
  /\ \A o \in Slots \ {s} : calls[o].pc # "done"
  /\ \E a \in DeployArgs :
       /\ a.app_slug = <<"demo">>
       /\ a.project_path = CanonicalSrc
       /\ a.release_id \in {<<"rel1">>, <<"rel2">>}
       /\ \A o \in Slots \ {s} :
            calls[o].pc # "idle" => calls[o].args.release_id # a.release_id
       /\ StartReleaseDeploy(s, a.release_id, a.app_slug, a.project_path, a.env_required,
                             a.domain)

\* two deploys of one application in flight at once, their steps interleaved
NextC == ConcurrentDeploy(1) \/ ConcurrentDeploy(2) \/ DeployStep(1) \/ DeployStep(2)

SpecConcurrentDeploy == InitP /\ [][NextC]_vars

\* ------------------------------------------------------------------------
\* Properties of the dispatcher and the registry
\* ------------------------------------------------------------------------

InTable(name) == \E i \in CapIndices : CAPABILITIES[i].name = name

RequiredRoleOf(name) ==
  CAPABILITIES[CHOOSE i \in CapIndices : CAPABILITIES[i].name = name].requiredRole

HandlerRuns(i) == {k \in 1..Len(handlerLog) : handlerLog[k].requestId = i}

AuditEntries(i) == {k \in 1..Len(auditLog) : auditLog[k].requestId = i}

\* C1: a handler is invoked only for a name of the table and a role whose
\* level is at least the level of the required role; an unknown name is
\* answered "not found", an insufficient role "insufficient permissions" with
\* the required and the actual role, and in both cases no handler runs.
C1_HandlerOnlyWhenPermitted ==
  /\ \A k \in 1..Len(handlerLog) :
       LET r == requests[handlerLog[k].requestId] IN
         /\ InTable(r.capability)
         /\ getRoleLevel(r.role) >= getRoleLevel(RequiredRoleOf(r.capability))
         /\ handlerLog[k].role = r.role
  /\ \A i \in 1..Len(requests) :
       LET r == requests[i] IN
         /\ ~InTable(r.capability) =>
              /\ r.status = 404
              /\ r.body.error = "Capability not found"
              /\ HandlerRuns(i) = {}
         /\ (InTable(r.capability)
               /\ getRoleLevel(r.role) < getRoleLevel(RequiredRoleOf(r.capability))) =>
              /\ r.status = 403
              /\ r.body.error = "Insufficient permissions"
              /\ r.body.required = RequiredRoleOf(r.capability)
              /\ r.body.current = r.role
              /\ HandlerRuns(i) = {}

\* one request was refused for its role and another one reached its handler
C1_Witness ==
  /\ \E i \in 1..Len(requests) : requests[i].status = 403 /\ requests[i].role = "operator"
  /\ \E i \in 1..Len(requests) : requests[i].status = 200 /\ HandlerRuns(i) # {}

PermittedIndices(role) ==
  {i \in CapIndices : getRoleLevel(CAPABILITIES[i].requiredRole) <= getRoleLevel(role)}

\* caps holds the permitted descriptors, each once, in the order of the table
IsListingFor(caps, role) ==
  /\ Len(caps) = Cardinality(PermittedIndices(role))
  /\ \A k \in 1..Len(caps) :
       \E i \in PermittedIndices(role) :
         /\ caps[k] = CAPABILITIES[i]
         /\ Cardinality({j \in PermittedIndices(role) : j <= i}) = k

Range(seq) == {seq[k] : k \in 1..Len(seq)}

\* C2: authorization is monotone in observer < operator < builder < admin:
\* what a role may invoke or is listed, every higher role may invoke and is
\* listed too, and a listing holds exactly the descriptors whose required
\* role is at most the role asked for, in table order.
C2_AuthorizationMonotone ==
  /\ \A r1 \in Roles, r2 \in Roles, i \in CapIndices :
       (getRoleLevel(r1) <= getRoleLevel(r2) /\ Gate(CAPABILITIES[i].name, r1) = "invoke")
         => Gate(CAPABILITIES[i].name, r2) = "invoke"
  /\ \A k \in 1..Len(listing) : IsListingFor(listing[k].caps, listing[k].role)
  /\ \A j \in 1..Len(listing), k \in 1..Len(listing) :
       getRoleLevel(listing[j].role) <= getRoleLevel(listing[k].role)
         => Range(listing[j].caps) \subseteq Range(listing[k].caps)

\* an operator and a builder have asked, and the builder was listed more
C2_Witness ==
  \E j \in 1..Len(listing), k \in 1..Len(listing) :
    /\ listing[j].role = "operator"
    /\ listing[k].role = "builder"
    /\ Len(listing[j].caps) < Len(listing[k].caps)
    /\ Len(listing[j].caps) > 0

Passed(i) == requests[i].status \notin {403, 404}

Returned(s) == calls[s].pc = "done"

Mutated(c) == \E k \in 1..Len(c.io) : c.io[k].op \in MutatingOps

\* the text of the application's .env, empty when there is no file
EnvOnDisk == IF fs.env.exists THEN EnvText(fs.env.lines) ELSE << >>

\* the key does not occur in .env as KEY=
NotFound(key) == ~Includes(EnvOnDisk, key \o <<"=">>)

\* .env holds a KEY=VALUE line whose key is the given one
HasKeyLine(key) ==
  /\ fs.env.exists
  /\ \E k \in 1..Len(fs.env.lines) : fs.env.lines[k].key = key

\* C3: release.deploy with the correct project_path and a required key that
\* is not found in .env (or no .env) returns ok:false with ENV_MISSING_KEYS
\* and a message that names every key not found, and it has created, copied,
\* logged, unlinked and linked nothing.
C3_MissingKeysRejected ==
  \A s \in Slots :
    LET c == calls[s] IN
      (/\ Returned(s)
       /\ c.stage = "release.deploy"
       /\ c.args.project_path = CanonicalSrc
       /\ \E k \in 1..Len(c.args.env_required) : NotFound(c.args.env_required[k]))
      =>
      /\ c.envelope.ok = FALSE
      /\ c.envelope.error.code = "ENV_MISSING_KEYS"
      /\ \A k \in 1..Len(c.args.env_required) :
           NotFound(c.args.env_required[k])
             => Includes(c.envelope.error.message, c.args.env_required[k])
      /\ ~Mutated(c)

\* a deploy that required two keys was refused for the one .env does not hold
C3_Witness ==
  \E s \in Slots :
    /\ Returned(s)
    /\ calls[s].stage = "release.deploy"
    /\ calls[s].envelope.error.code = "ENV_MISSING_KEYS"
    /\ fs.env.exists
    /\ calls[s].args.env_required = <<KeyK, KeyE>>
    /\ NotFound(KeyK) /\ ~NotFound(KeyE)

InFlight(path) ==
  \E s \in Slots :
    /\ calls[s].pc \notin {"idle", "done"}
    /\ calls[s].stage = "release.deploy"
    /\ ReleasePath(calls[s]) = path

\* C4: current does not exist or points to a release directory with a
\* completed copy whose deploy returned ok:true (or has not returned yet);
\* never to a release whose deploy returned ok:false.
C4_CurrentPointsAtDeployedRelease ==
  \A link \in DOMAIN fs.links :
    LET target == fs.links[link] IN
      /\ target \in DOMAIN fs.releases
      /\ fs.releases[target] = "full"
      /\ \/ InFlight(target)
         \/ target \in DOMAIN outcomes /\ TRUE \in outcomes[target]

\* C5: every path a stage hands to a filesystem or process operation lies
\* below the managed root.
C5_PathsUnderManagedRoot ==
  \A s \in Slots :
    \A k \in 1..Len(calls[s].io) : IsDescendant(calls[s].io[k].path, appsRoot)

\* the path a stage works on
TargetPath(c) ==
  CASE c.stage = "repo.clone"      -> SrcPath(c)
    [] c.stage = "supabase.ensure" -> SupabasePath(c)
    [] c.stage = "supabase.apply"  -> Join(<<c.args.project_path, <<"supabase">>>>)
    [] c.stage = "release.deploy"  -> ReleasePath(c)

\* C6: every stage calls validatePath before its first filesystem operation,
\* and a stage whose target path does not validate returns a failed envelope
\* and has performed no operation.
C6_ValidatedBeforeIo ==
  \A s \in Slots :
    LET c == calls[s] IN
      /\ c.io # << >> => c.validated
      /\ (Returned(s) /\ ~validatePath(TargetPath(c), SafeSlug(c))) =>
           /\ c.io = << >>
           /\ c.envelope.ok = FALSE

\* C7: repo.clone with a git_url that does not start with
\* https://github.com/ returns ok:false, REPO_CLONE_FAILED, 'Only GitHub URLs
\* are allowed', and has run no filesystem or git operation.
C7_ForeignOriginRejected ==
  \A s \in Slots :
    LET c == calls[s] IN
      (/\ c.stage = "repo.clone"
       /\ c.pc # "idle"
       /\ ~StartsWith(c.args.git_url, <<"https://", "github.com/">>))
      =>
      /\ Returned(s)
      /\ c.envelope.ok = FALSE
      /\ c.envelope.error.code = "REPO_CLONE_FAILED"
      /\ c.envelope.error.message = <<"Only GitHub URLs are allowed">>
      /\ c.io = << >>

\* a clone from another host over https was refused
C7_Witness ==
  \E s \in Slots :
    /\ Returned(s)
    /\ calls[s].stage = "repo.clone"
    /\ calls[s].args.git_url = <<"https://", "gitlab.com/", "repo">>
    /\ calls[s].envelope.error.code = "REPO_CLONE_FAILED"

\* C8: supabase.apply and release.deploy with a project_path other than
\* <root>/<sanitized slug>/src return ok:false with DB_MIGRATION_FAILED and
\* APP_DEPLOY_FAILED, and have performed no filesystem operation.
C8_PathEqualityFailClosed ==
  \A s \in Slots :
    LET c == calls[s] IN
      (/\ c.stage \in {"supabase.apply", "release.deploy"}
       /\ c.pc # "idle"
       /\ c.args.project_path # appsRoot \o <<"/">> \o sanitizeAppName(c.args.app_slug)
                                  \o <<"/", "src">>)
      =>
      /\ Returned(s)
      /\ c.envelope.ok = FALSE
      /\ c.envelope.error.code = (IF c.stage = "supabase.apply" THEN "DB_MIGRATION_FAILED"
                                  ELSE "APP_DEPLOY_FAILED")
      /\ c.io = << >>

\* a deploy was refused for a project_path that only resolves to the canonical one
C8_Witness ==
  \E s \in Slots :
    /\ Returned(s)
    /\ calls[s].stage = "release.deploy"
    /\ calls[s].args.project_path # CanonicalSrc
    /\ Normalize(calls[s].args.project_path) = CanonicalSrc
    /\ calls[s].envelope.error.code = "APP_DEPLOY_FAILED"

\* C9: release.deploy reaches its mutation phase (mkdir of the release
\* directory, copy, symlink) only if every required key is the key of a
\* KEY=VALUE line of .env.
C9_MutationOnlyWithAllKeys ==
  \A s \in Slots :
    LET c == calls[s] IN
      (c.stage = "release.deploy" /\ (Mutated(c) \/ c.pc = "rd_mkdir"))
        => \A k \in 1..Len(c.args.env_required) : HasKeyLine(c.args.env_required[k])


\* ------------------------------------------------------------------------
\* Properties of the transport
\* ------------------------------------------------------------------------

\* the request got past the middleware, the lookup and the role check
Dispatched(i) ==
  /\ authenticate(requests[i].apiKey, requests[i].role) = "next"
  /\ Gate(requests[i].capability, requests[i].role) = "invoke"

\* C11: a dispatched request whose body leaves out a required field of the
\* capability's schema, or holds a value of another type, never has its
\* handler invoked and is not answered as a success.
C11_ArgumentsValidatedBeforeHandler ==
  \A i \in 1..Len(requests) :
    (Dispatched(i) /\ requests[i].args # WellFormed) =>
      /\ HandlerRuns(i) = {}
      /\ requests[i].status # 200

Authenticated(i) == authenticate(requests[i].apiKey, requests[i].role) = "next"

\* C12: an authenticated execute request is answered once and no more; when
\* its handler or the audit wrapper around it throws, the answer is the
\* execution error with success false (status 500), and when the wrapper
\* hands back the handler's result, the answer carries that result unchanged.
C12_HandlerFailureNeverPropagates ==
  \A i \in 1..Len(requests) :
    LET r == requests[i] IN
    Authenticated(i) =>
      /\ r.responses <= 1
      /\ r.pc = "done" => (r.responses = 1 /\ r.status # 0)
      /\ r.pc # "done" => r.responses = 0
      /\ (r.pc = "done" /\ Dispatched(i)) =>
           /\ (r.outcome = "throw" \/ r.wrapper = "throw") =>
                /\ r.status = 500
                /\ r.body.success = "false"
                /\ r.body.error = "execution error"
           /\ r.wrapper = "return" =>
                /\ r.outcome = "return"
                /\ r.status = 200
                /\ r.body.result = r.result

\* a handler threw and was answered 500, the result of another came back
C12_Witness ==
  /\ \E i \in 1..Len(requests) :
       requests[i].outcome = "throw" /\ requests[i].status = 500
  /\ \E i \in 1..Len(requests) :
       /\ requests[i].status = 200
       /\ requests[i].body.result = "envelope_failed"

\* C13: a request reaches the lookup, the role check or a handler only with a
\* valid API key and one of the four roles; a missing or invalid key is
\* answered 401 whatever the role header holds, and with a valid key a
\* missing or unknown role is answered 400.
C13_AuthenticatedBeforeDispatch ==
  /\ \A i \in 1..Len(requests) :
       LET r == requests[i] IN
         /\ r.apiKey # "valid" =>
              (r.status = 401 /\ r.pc = "done" /\ HandlerRuns(i) = {})
         /\ (r.apiKey = "valid" /\ r.role \notin Roles) =>
              (r.status = 400 /\ r.pc = "done" /\ HandlerRuns(i) = {})
         /\ (r.status \in {404, 403, 200, 500} \/ r.pc # "done") =>
              (r.apiKey = "valid" /\ r.role \in Roles)
  /\ \A k \in 1..Len(handlerLog) :
       /\ requests[handlerLog[k].requestId].apiKey = "valid"
       /\ handlerLog[k].role \in Roles

\* a request without a key and with an unknown role was answered 401, and
\* one with a valid key and an unknown role 400
C13_Witness ==
  /\ \E i \in 1..Len(requests) :
       /\ requests[i].apiKey = "missing"
       /\ requests[i].role = "root"
       /\ requests[i].status = 401
  /\ \E i \in 1..Len(requests) :
       /\ requests[i].apiKey = "valid"
       /\ requests[i].role = "root"
       /\ requests[i].status = 400

\* ------------------------------------------------------------------------
\* Properties of the pipeline stages, continued
\* ------------------------------------------------------------------------

\* the pipeline state of the application of invocation c, read from disk f
PipelineState(f, c) ==
  [checkout   |-> SrcPath(c) \in f.dirs \/ SrcPath(c) \in f.repos,
   definition |-> ComposePath(c) \in f.compose,
   release    |-> ReleasePath(c) \in DOMAIN f.releases,
   current    |-> IF CurrentLink(c) \in DOMAIN f.links THEN f.links[CurrentLink(c)]
                  ELSE << >>]

\* C14: a stage that returns ok:false leaves the pipeline state of the
\* application (source directory, definition file, release directory, target
\* of current) as it was when the stage was called.
C14_FailedStageLeavesStateUnchanged ==
  \A s \in Slots :
    LET c == calls[s] IN
      (c.pc = "done" /\ ~c.envelope.ok) =>
        PipelineState(fs, c) = PipelineState(c.before, c)

\* the invocation found the definition file and the running stack of an
\* earlier supabase.ensure for the same application
EnsuredBefore(c) ==
  /\ c.stage = "supabase.ensure"
  /\ ComposePath(c) \in c.before.compose
  /\ SupabasePath(c) \in c.before.stacks

Artifact(c, name) == (CHOOSE a \in c.envelope.artifacts : a[1] = name)[2]

\* <root>/<slug>/<dir>/<leaf> written out and resolved
UnderApp(c, dir, leaf) ==
  Normalize(appsRoot \o <<"/">> \o SafeSlug(c) \o <<"/">> \o dir \o
            (IF leaf = << >> THEN << >> ELSE <<"/">> \o leaf))

\* a deploy that was given the canonical project path, found a checkout with
\* content and every required key as a key of .env
DeployPreconditions(c) ==
  /\ c.stage = "release.deploy"
  /\ c.args.project_path = appsRoot \o <<"/">> \o SafeSlug(c) \o <<"/", "src">>
  /\ c.args.project_path \in c.before.repos
  /\ \A k \in 1..Len(c.args.env_required) : HasKeyLine(c.args.env_required[k])

\* C16: a release.deploy that is given the canonical project path, a
\* checkout with content and an .env with every required key, with or
\* without an earlier current link, returns ok:true with release_path
\* <root>/<slug>/releases/<release_id>, current_path <root>/<slug>/current
\* and app_url https://<domain> or, without a domain, http://localhost:<port>,
\* and current then points at that release directory, which holds the copy;
\* it returns ok:false only when one of its operations failed (the removal
\* of the old link and the read of .env included, whose failures the stage
\* itself passes over).
C16_DeployCutsOverToRelease ==
  \A s \in Slots :
    LET c == calls[s] IN
      (DeployPreconditions(c) /\ c.pc = "done") =>
        IF c.envelope.ok
          THEN /\ Artifact(c, "release_path") = UnderApp(c, <<"releases">>, c.args.release_id)
               /\ Artifact(c, "current_path") = UnderApp(c, <<"current">>, << >>)
               /\ Artifact(c, "app_url") =
                    (IF c.args.domain # << >> THEN <<"https://">> \o c.args.domain
                     ELSE <<"http://localhost:">> \o c.args.port)
               /\ Artifact(c, "current_path") \in DOMAIN fs.links
               /\ fs.links[Artifact(c, "current_path")] = Artifact(c, "release_path")
               /\ Artifact(c, "release_path") \in DOMAIN fs.releases
               /\ fs.releases[Artifact(c, "release_path")] = "full"
          ELSE \/ /\ c.envelope.error.code = "APP_DEPLOY_FAILED"
                  /\ c.envelope.error.message = IoError
               \/ /\ c.envelope.error.code = "APP_DEPLOY_FAILED"
                  /\ c.envelope.error.message = LinkExists
                  /\ "unlink" \in c.swallowed
               \/ /\ c.envelope.error.code = "ENV_MISSING_KEYS"
                  /\ c.io = <<Io("readFile", EnvPath(c))>>
                  /\ "readFile" \in c.swallowed
                  /\ c.args.env_required # << >>

\* a deploy with a domain has replaced the current link of an earlier deploy
C16_Witness ==
  \E s \in Slots :
    LET c == calls[s] IN
      /\ DeployPreconditions(c)
      /\ c.pc = "done"
      /\ c.envelope.ok
      /\ c.args.domain # << >>
      /\ c.args.env_required # << >>
      /\ CurrentLink(c) \in DOMAIN c.before.links

\* ------------------------------------------------------------------------
\* Properties of the transport, continued
\* ------------------------------------------------------------------------

\* C17: no handler of the table raises to the dispatcher: a handler whose
\* arguments are bad or whose filesystem, container or database call fails
\* comes back with a failed result.
C17_HandlersCatchOwnFailures ==
  \A i \in 1..Len(requests) : requests[i].outcome # "throw"

\* the request was answered with a failure
Failure(r) ==
  \/ r.status \in {404, 403, 500}
  \/ r.result = "envelope_failed"

\* C18: every answer to an authenticated execute request carries a boolean
\* success flag, and every failure (unknown capability, insufficient
\* permission, handler fault, failed stage) carries the flag false with a
\* code and a message; a stage that returned ok:false is never answered
\* success:true.
C18_FailuresReportedAsFailures ==
  \A i \in 1..Len(requests) :
    LET r == requests[i] IN
    (Authenticated(i) /\ r.pc = "done") =>
      /\ r.body.success \in {"true", "false"}
      /\ Failure(r) =>
           /\ r.body.success = "false"
           /\ r.body.code # "unset"
           /\ r.body.error # "unset"

\* C19: the handlers of repo.clone, supabase.ensure, supabase.apply and
\* release.deploy only ever run for a request whose role is builder or admin;
\* a request for one of them by an observer or an operator is answered 403.
C19_V1ToolsNeedBuilder ==
  /\ \A k \in 1..Len(handlerLog) :
       handlerLog[k].handler \in V1Handlers =>
         /\ handlerLog[k].role \in {"builder", "admin"}
         /\ requests[handlerLog[k].requestId].role = handlerLog[k].role
  /\ \A i \in 1..Len(requests) :
       (Authenticated(i) /\ requests[i].capability \in V1Names
          /\ requests[i].role \in {"observer", "operator"}) =>
         (requests[i].status = 403 /\ HandlerRuns(i) = {})

\* an operator was refused supabase.apply and a builder's release.deploy ran
C19_Witness ==
  /\ \E i \in 1..Len(requests) :
       /\ requests[i].capability = "supabase.apply"
       /\ requests[i].role = "operator"
       /\ requests[i].status = 403
  /\ \E k \in 1..Len(handlerLog) :
       handlerLog[k].handler = "releaseDeploy" /\ handlerLog[k].role = "builder"

\* the request whose handler finishes in this step
Finishing(i) ==
  /\ i \in 1..Len(requests)
  /\ requests[i].pc = "handler"
  /\ requests'[i].pc # "handler"

CountedPresent(c) ==
  { k \in 1..Len(c.args.env_required) :
      /\ c.before.env.exists
      /\ "readFile" \notin c.swallowed
      /\ Includes(EnvText(c.before.env.lines), c.args.env_required[k] \o <<"=">>) }

\* the non-empty selections of the elements of a sequence, in its order
Selections(seq) ==
  { SelectSeq([k \in 1..Len(seq) |-> <<k, seq[k]>>], LAMBDA e : e[1] \in ks) :
      ks \in (SUBSET (1..Len(seq))) \ {{}} }

Seconds(pairs) == [k \in 1..Len(pairs) |-> pairs[k][2]]

\* C21: two release.deploy calls with the same arguments, on .env files that
\* make the same required keys count as present, that end the same way (both
\* ok, both for missing keys, or both on the same failed operation) return
\* the same envelope whatever the values in the files; and the ENV_MISSING_KEYS message is "Missing
\* keys: " followed by names taken from env_required and nothing else.
C21_EnvValuesNeverReturned ==
  /\ \A s \in Slots :
       LET c == calls[s] IN
         (c.pc = "done" /\ c.envelope.error.code = "ENV_MISSING_KEYS") =>
           \E sel \in Selections(c.args.env_required) :
             c.envelope.error.message =
               <<"Missing keys: ">> \o JoinWith(Seconds(sel), <<", ">>)
  /\ LET c1 == calls[1]
         c2 == calls[2]
     IN (/\ c1.pc = "done" /\ c2.pc = "done"
         /\ c1.stage = "release.deploy" /\ c2.stage = "release.deploy"
         /\ c1.args = c2.args
         /\ CountedPresent(c1) = CountedPresent(c2)
         /\ c1.envelope.ok = c2.envelope.ok
         /\ c1.envelope.error.code = c2.envelope.error.code
         /\ c1.envelope.error.code = "APP_DEPLOY_FAILED" =>
              c1.envelope.error.message = c2.envelope.error.message)
          => c1.envelope = c2.envelope

\* the same deploy has twice reported the key K missing, on two .env files
\* that differ in the value of E
C21_Witness ==
  /\ calls[1].pc = "done" /\ calls[2].pc = "done"
  /\ calls[1].args = calls[2].args
  /\ calls[1].before.env # calls[2].before.env
  /\ calls[1].before.env.exists /\ calls[2].before.env.exists
  /\ CountedPresent(calls[1]) = CountedPresent(calls[2])
  /\ calls[1].envelope.error.code = "ENV_MISSING_KEYS"
  /\ calls[2].envelope.error.code = "ENV_MISSING_KEYS"
  /\ calls[1].envelope.error.message = <<"Missing keys: ", "K">>

\* ------------------------------------------------------------------------
\* The observer role
\* ------------------------------------------------------------------------

\* the handlers of capabilities.ts that write, create or remove files or
\* directories, start, stop or restart containers, or create, drop, migrate,
\* seed or back up a database
MutatingHandlers ==
  {"appsInit", "appsRemove", "deployUp", "deployDown", "deployRestart",
   "dbCreate", "dbMigrate", "dbSeed", "dbBackup"} \cup V1Handlers

C23_RepoCloneReobserves ==
  \A s \in Slots :
    LET c == calls[s] IN
      c.stage = "repo.clone" =>
        /\ c.gitMode # "none" =>
             (c.gitMode = "update" <=> SrcPath(c) \in c.before.repos)
        /\ (c.pc = "done" /\ c.envelope.ok) =>
             /\ c.gitMode # "none"
             /\ SrcPath(c) \in fs.repos
        /\ (c.pc = "done" /\ ~c.envelope.ok
              /\ validatePath(SrcPath(c), SafeSlug(c)) /\ isGitHubUrl(c.args.git_url)) =>
             /\ c.envelope.error.code = "REPO_CLONE_FAILED"
             /\ c.envelope.error.message = IoError

\* a repo.clone retried after a failed clone (source directory there, no
\* working copy) made a fresh clone and returned ok:true
C23_Witness ==
  /\ started = 2
  /\ calls[1].stage = "repo.clone"
  /\ calls[1].pc = "done"
  /\ calls[1].envelope.ok
  /\ SrcPath(calls[1]) \in calls[1].before.dirs
  /\ SrcPath(calls[1]) \notin calls[1].before.repos
  /\ calls[1].gitMode = "clone"

\* ------------------------------------------------------------------------
\* The order of the stages
\* ------------------------------------------------------------------------

\* what a stage that returned ok:true for the application of invocation c
\* leaves behind: repo.clone a working copy, supabase.ensure a started stack,
\* supabase.apply a line in its log (under some release id)
CloneDone(c)  == SrcPath(c) \in fs.repos
EnsureDone(c) == SupabasePath(c) \in fs.stacks
ApplyDone(c)  ==
  \E r \in ReleaseIds :
    LogPath([c EXCEPT !.stage = "supabase.apply", !.args.release_id = r]) \in DOMAIN fs.logs

\* C24: release.deploy returns ok:true only after repo.clone, supabase.ensure
\* and supabase.apply have each returned ok:true for that application: when a
\* deploy has returned ok:true, the working copy, the started stack and the
\* log line of the migration that those stages leave behind are there.
C24_DeployOnlyAfterEarlierStages ==
  \A s \in Slots :
    LET c == calls[s] IN
      (c.stage = "release.deploy" /\ c.pc = "done" /\ c.envelope.ok) =>
        /\ CloneDone(c)
        /\ EnsureDone(c)
        /\ ApplyDone(c)

\* ------------------------------------------------------------------------
\* A deploy that fails on a deployed application
\* ------------------------------------------------------------------------

\* C25: a release.deploy that returns ok:false on an application that had a
\* current link when the call began leaves current pointing at the release
\* it pointed at then; the application is never left without current.
C25_FailedDeployKeepsCurrent ==
  \A s \in Slots :
    LET c == calls[s] IN
      (/\ c.stage = "release.deploy" /\ c.pc = "done" /\ ~c.envelope.ok
       /\ CurrentLink(c) \in DOMAIN c.before.links) =>
        /\ CurrentLink(c) \in DOMAIN fs.links
        /\ fs.links[CurrentLink(c)] = c.before.links[CurrentLink(c)]

\* ------------------------------------------------------------------------
\* Two deploys of one application at once
\* ------------------------------------------------------------------------

\* an operation of the invocation failed for a reason of its own (disk,
\* permissions, the copy or the log write), not through the other invocation
OperationFailed(c) ==
  \/ c.swallowed # {}
  \/ c.pc = "done" /\ ~c.envelope.ok /\ c.envelope.error.message = IoError

\* both invocations are deploys of the same application under distinct
\* release ids, with their preconditions satisfied, and both have returned
BothDeploysReturned ==
  /\ \A s \in Slots : calls[s].pc = "done" /\ DeployPreconditions(calls[s])
  /\ SafeSlug(calls[1]) = SafeSlug(calls[2])
  /\ calls[1].args.release_id # calls[2].args.release_id

FullyCopied(c) ==
  /\ ReleasePath(c) \in DOMAIN fs.releases
  /\ fs.releases[ReleasePath(c)] = "full"

\* C26: once two concurrent release.deploy calls on the same application
\* with distinct release ids and satisfied preconditions have both returned,
\* no operation of either having failed for a reason of its own, current
\* exists and points at the fully copied release directory of a call that
\* returned ok:true, and every call that returned ok:true has its release
\* directory fully copied; a call returns ok:false only because the other
\* one's link was in its way.
C26_ConcurrentDeploysLeaveCurrent ==
  (BothDeploysReturned /\ \A s \in Slots : ~OperationFailed(calls[s])) =>
    /\ CurrentLink(calls[1]) \in DOMAIN fs.links
    /\ \E s \in Slots :
         /\ calls[s].envelope.ok
         /\ fs.links[CurrentLink(calls[1])] = ReleasePath(calls[s])
         /\ FullyCopied(calls[s])
    /\ \A s \in Slots :
         /\ calls[s].envelope.ok => FullyCopied(calls[s])
         /\ ~calls[s].envelope.ok =>
              /\ calls[s].envelope.error.code = "APP_DEPLOY_FAILED"
              /\ calls[s].envelope.error.message = LinkExists

\* the two deploys raced on current: one found the other's link in its way
\* and returned ok:false, and current points at the release of the other
C26_Witness ==
  /\ BothDeploysReturned
  /\ \A s \in Slots : ~OperationFailed(calls[s])
  /\ ~calls[2].envelope.ok
  /\ calls[2].envelope.error.message = LinkExists
  /\ calls[1].envelope.ok
  /\ fs.links[CurrentLink(calls[1])] = ReleasePath(calls[1])

\* ------------------------------------------------------------------------
\* The stage logs
\* ------------------------------------------------------------------------

\* <root>/A/logs/R/<action>.log for invocation c, as the filesystem
\* resolves it
ExpectedLog(c) ==
  Normalize(appsRoot \o <<"/">> \o SafeSlug(c) \o <<"/", "logs", "/">>
              \o c.args.release_id \o <<"/", c.stage, ".log">>)

IsPrefix(a, b) == Len(a) <= Len(b) /\ SubSeq(b, 1, Len(a)) = a

LogOf(f, p) == IF p \in DOMAIN f.logs THEN f.logs[p] ELSE << >>

Running(s) == calls[s].pc \notin {"idle", "done"}

\* C27: in every step, each log file keeps its earlier content as a prefix
\* of its later content; a log that changes is the log
\* <root>/A/logs/R/<action>.log of the stage that takes the step, and gains
\* exactly one entry; and a stage call that returns ok:true has written to
\* its own log, which holds at least one entry.
C27_LogsAppendOnlyPerAction ==
  [][ /\ \A p \in DOMAIN fs.logs :
           /\ p \in DOMAIN fs'.logs
           /\ IsPrefix(fs.logs[p], fs'.logs[p])
      /\ \A p \in DOMAIN fs'.logs :
           LogOf(fs', p) # LogOf(fs, p) =>
             /\ Len(LogOf(fs', p)) = Len(LogOf(fs, p)) + 1
             /\ \E s \in Slots :
                  /\ Running(s)
                  /\ calls'[s] # calls[s]
                  /\ p = ExpectedLog(calls[s])
      /\ \A s \in Slots :
           (calls'[s].pc = "done" /\ calls'[s].envelope.ok) =>
             /\ \E k \in 1..Len(calls'[s].io) :
                  calls'[s].io[k] = Io("writeFile", ExpectedLog(calls'[s]))
             /\ LogOf(fs', ExpectedLog(calls'[s])) # << >>
    ]_vars

\* a second deploy of the same release has returned ok:true and its log
\* holds the two entries of the first call followed by its own two
C27_Witness ==
  /\ started = 2
  /\ calls[1].stage = "release.deploy"
  /\ calls[1].pc = "done"
  /\ calls[1].envelope.ok
  /\ Len(LogOf(fs, ExpectedLog(calls[1]))) = 4
  /\ \A p \in DOMAIN fs.logs : p = ExpectedLog(calls[1])

\* ------------------------------------------------------------------------
\* The health route
\* ------------------------------------------------------------------------

\* C28: a GET /health sent without an API key and without a role header is
\* answered 200 with the healthy status body.
C28_HealthWithoutCredentials ==
  \A i \in 1..Len(requests) :
    (/\ requests[i].capability = "GET /health"
     /\ requests[i].apiKey = "missing"
     /\ requests[i].role = "missing") =>
      /\ requests[i].status = 200
      /\ requests[i].body.result = "healthy"

====
